---- MODULE Spec2Model ----
(***************************************************************************)
(* Model of the japaya Python worker (src/internal/python/py/worker.py):   *)
(* a line-delimited JSON protocol loop that evaluates or executes one      *)
(* snippet per request under output capture.                               *)
(*                                                                         *)
(* Text is a sequence of chunks (strings).  A character that an encoder    *)
(* or a line splitter treats specially (line feed, double quote,           *)
(* backslash, tab) is always a chunk of its own.                           *)
(***************************************************************************)
EXTENDS Integers, Sequences, FiniteSets

\* Longest input the protocol loop is fed before end-of-stream.
MaxLines == 2

----------------------------------------------------------------------------
\* Text helpers

LF == "\n"

----------------------------------------------------------------------------
\* Python values: every value is [t |-> type tag, v |-> payload]

PyNone == [t |-> "NoneType", v |-> <<>>]
PyStr(text) == [t |-> "str", v |-> text]
PyInt(n) == [t |-> "int", v |-> n]
PyList(items) == [t |-> "list", v |-> items]
PyDict(fields) == [t |-> "dict", v |-> fields]
PyModule(name) == [t |-> "module", v |-> name]

Digit(d) ==
  CASE d = 0 -> "0" [] d = 1 -> "1" [] d = 2 -> "2" [] d = 3 -> "3"
    [] d = 4 -> "4" [] d = 5 -> "5" [] d = 6 -> "6" [] d = 7 -> "7"
    [] d = 8 -> "8" [] d = 9 -> "9"

RECURSIVE int_str(_)
int_str(n) ==
  IF n < 0 THEN <<"-">> \o int_str(0 - n)
  ELSE IF n < 10 THEN <<Digit(n)>>
  ELSE int_str(n \div 10) \o <<Digit(n % 10)>>

\* str(value) of the builtin types the snippets produce
str(val) ==
  CASE val.t = "str" -> val.v
    [] val.t = "int" -> int_str(val.v)
    [] val.t = "NoneType" -> <<"None">>
    [] val.t = "list" -> <<"[...]">>
    [] val.t = "dict" -> <<"{...}">>
    [] val.t = "module" -> <<"<module '", val.v, "'>">>

----------------------------------------------------------------------------
\* Exceptions.  isException: the class derives from Exception (SystemExit,
\* KeyboardInterrupt and GeneratorExit derive from BaseException only).
\* strOK = FALSE: the class overrides __str__ and that method raises.

Exc(cls, msg) == [cls |-> cls, isException |-> TRUE, msg |-> msg, strOK |-> TRUE]
BaseExc(cls, msg) == [cls |-> cls, isException |-> FALSE, msg |-> msg, strOK |-> TRUE]
BadStrExc(cls) == [cls |-> cls, isException |-> TRUE, msg |-> <<>>, strOK |-> FALSE]

TraceHeader == "Traceback (most recent call last):"

\* traceback.format_exc(): header, the frames, then "Class: message"; the
\* traceback module never raises on a failing __str__.
format_exc(e, frames) ==
  <<TraceHeader, LF>> \o frames
    \o <<e.cls>>
    \o (IF ~e.strOK THEN <<": ", "<exception str() failed>">>
        ELSE IF e.msg = <<>> THEN <<>>
        ELSE <<": ">> \o e.msg)
    \o <<LF>>

Frame(line, fn) == <<"  File worker.py, line " \o line \o ", in " \o fn, LF>>
SnippetFrame == <<"  File ", "\"", "<string>", "\"", ", line 1, in <module>", LF>>

----------------------------------------------------------------------------
\* json.dumps(resp) for the two response shapes (default separators, keys in
\* insertion order, ensure_ascii).  Line feed, double quote, backslash and
\* tab are escaped, so an encoded response holds no raw line feed.

\* Variant of json_escape: only the quote and the backslash are escaped
json_escape_quote_only(c) ==
  CASE c = "\"" -> "\\\""
    [] c = "\\" -> "\\\\"
    [] OTHER -> c

json_escape(c) ==
  CASE c = LF -> "\\n"
    [] c = "\"" -> "\\\""
    [] c = "\\" -> "\\\\"
    [] c = "\t" -> "\\t"
    [] OTHER -> c

json_str(text) == <<"\"">> \o [i \in 1..Len(text) |-> json_escape(text[i])] \o <<"\"">>

json_dumps(r) ==
  <<"{", "\"ok\": ", (IF r.ok THEN "true" ELSE "false"), ", ">>
    \o (IF "out" \in DOMAIN r THEN <<"\"out\": ">> \o json_str(r.out)
        ELSE <<"\"err\": ">> \o json_str(r.err))
    \o <<", ", "\"stdout\": ">> \o json_str(r.stdout)
    \o <<", ", "\"stderr\": ">> \o json_str(r.stderr)
    \o <<"}">>

----------------------------------------------------------------------------
\* The reader of the output channel (the tests' send): readline() takes the
\* text up to the first raw line feed, json.loads decodes it.

readline(stream, from) ==
  LET ends == {i \in from..Len(stream) : stream[i] = LF}
  IN IF ends = {} THEN SubSeq(stream, from, Len(stream))
     ELSE SubSeq(stream, from, CHOOSE i \in ends : \A j \in ends : i <= j)

json_unescape(c) ==
  CASE c = "\\n" -> LF
    [] c = "\\\"" -> "\""
    [] c = "\\\\" -> "\\"
    [] c = "\\t" -> "\t"
    [] OTHER -> c

\* A JSON string that opens before position i of s: its text and the
\* position after its closing quote.  A raw backslash escapes the chunk
\* that follows it; a raw control character is not allowed in a string.
RECURSIVE scan_string(_, _, _)
scan_string(s, i, acc) ==
  IF i > Len(s) THEN [ok |-> FALSE, text |-> acc, next |-> i]
  ELSE IF s[i] = "\"" THEN [ok |-> TRUE, text |-> acc, next |-> i + 1]
  ELSE IF s[i] = LF \/ s[i] = "\t" THEN [ok |-> FALSE, text |-> acc, next |-> i]
  ELSE IF s[i] = "\\"
  THEN IF i < Len(s) /\ s[i + 1] \in {"n", "t", "\"", "\\"}
       THEN scan_string(s, i + 2,
                        Append(acc, CASE s[i + 1] = "n" -> LF [] s[i + 1] = "t" -> "\t"
                                      [] OTHER -> s[i + 1]))
       ELSE [ok |-> FALSE, text |-> acc, next |-> i]
  ELSE scan_string(s, i + 1, Append(acc, json_unescape(s[i])))

\* json.loads of one response line: the record, when the line is an object
\* of the keys ok, out or err, stdout, stderr with string values
json_loads_response(s) ==
  LET head == Len(s) >= 6 /\ s[1] = "{" /\ s[2] = "\"ok\": " /\ s[3] \in {"true", "false"}
                /\ s[4] = ", " /\ s[5] \in {"\"out\": ", "\"err\": "} /\ s[6] = "\""
      first == scan_string(s, 7, <<>>)
      sep1 == first.ok /\ first.next + 2 <= Len(s) /\ s[first.next] = ", "
                /\ s[first.next + 1] = "\"stdout\": " /\ s[first.next + 2] = "\""
      second == scan_string(s, first.next + 3, <<>>)
      sep2 == second.ok /\ second.next + 2 <= Len(s) /\ s[second.next] = ", "
                /\ s[second.next + 1] = "\"stderr\": " /\ s[second.next + 2] = "\""
      third == scan_string(s, second.next + 3, <<>>)
      tail == third.ok /\ third.next + 1 = Len(s) /\ s[third.next] = "}"
                /\ s[third.next + 1] = LF
  IN IF ~head THEN [valid |-> FALSE]
     ELSE IF ~sep1 THEN [valid |-> FALSE]
     ELSE IF ~sep2 THEN [valid |-> FALSE]
     ELSE IF ~tail THEN [valid |-> FALSE]
     ELSE IF s[5] = "\"out\": "
     THEN [valid |-> TRUE,
           val |-> [ok |-> s[3] = "true", out |-> first.text,
                    stdout |-> second.text, stderr |-> third.text]]
     ELSE [valid |-> TRUE,
           val |-> [ok |-> s[3] = "true", err |-> first.text,
                    stdout |-> second.text, stderr |-> third.text]]

----------------------------------------------------------------------------
\* Input lines.  A raw line is a sequence of tokens: white space, one whole
\* JSON document (carrying the value json.loads returns for it), or text
\* that is not JSON.

Ws(s) == [k |-> "ws", s |-> s, doc |-> PyNone]
Doc(val) == [k |-> "doc", s |-> "", doc |-> val]
Txt(s) == [k |-> "text", s |-> s, doc |-> PyNone]

\* str.strip(): drop leading and trailing white space
RECURSIVE lstrip(_)
lstrip(raw) ==
  IF raw # <<>> /\ raw[1].k = "ws" THEN lstrip(Tail(raw)) ELSE raw

RECURSIVE rstrip(_)
rstrip(raw) ==
  IF raw # <<>> /\ raw[Len(raw)].k = "ws"
  THEN rstrip(SubSeq(raw, 1, Len(raw) - 1)) ELSE raw

strip(raw) == rstrip(lstrip(raw))

\* json.loads(line): the value of a line that is exactly one document;
\* JSONDecodeError (a ValueError) otherwise.
json_loads(line) ==
  IF Len(line) = 1 /\ line[1].k = "doc"
  THEN [ok |-> TRUE, val |-> line[1].doc]
  ELSE [ok |-> FALSE,
        exc |-> Exc("json.decoder.JSONDecodeError",
                    <<"Expecting property name enclosed in double quotes: ",
                      "line 1 column 2 (char 1)">>)]

\* dict.get(key): the value, or None when the key is absent
dict_get(d, key) == IF key \in DOMAIN d.v THEN d.v[key] ELSE PyNone

----------------------------------------------------------------------------
\* Snippets.  The interpreter is outside the repository: a source text
\* stands for the sequence of operations the interpreter performs for it.
\* Every operation yields a value (a statement yields None).

Const(val) == [op |-> "const", val |-> val]
Name(id) == [op |-> "name", id |-> id]
GlobalsGet(id) == [op |-> "globals_get", id |-> id]
Emit(file, text) == [op |-> "print", file |-> file, text |-> text]
PrintName(id) == [op |-> "print_name", file |-> "stdout", id |-> id]
Assign(id, val) == [op |-> "assign", id |-> id, val |-> val]
SetBuiltin(id, val) == [op |-> "set_builtin", id |-> id, val |-> val]
AssignGlobal(id, val) == [op |-> "assign_global", id |-> id, val |-> val]
DelGlobal(id) == [op |-> "del_global", id |-> id]
Raise(exc) == [op |-> "raise", exc |-> exc]

\* expr: the text is a single expression (eval accepts it); every text of
\* the table is a valid sequence of statements (exec accepts it).
\* kinds: the request kinds the input lines pair the text with.
Snippet(src, expr, kinds, ops) == [src |-> src, expr |-> expr, kinds |-> kinds, ops |-> ops]

Both == {"stmt", "block"}

SnippetTable == <<
  Snippet(<<"\"", "int x = 3;", "\"">>, TRUE, {"stmt"}, <<Const(PyStr(<<"int x = 3;">>))>>),
  Snippet(<<"None">>, TRUE, {"stmt"}, <<Const(PyNone)>>),
  Snippet(<<"(print(", "\"", "hi", "\"", "), ", "\"", "ok", "\"", ")[1]">>, TRUE, {"stmt"},
          <<Emit("stdout", <<"hi">>), Const(PyStr(<<"ok">>))>>),
  Snippet(<<"(print('a'), print('e', file=__import__('sys').stderr), 1/0)">>, TRUE, {"stmt"},
          <<Emit("stdout", <<"a">>), Emit("stderr", <<"e">>),
            Raise(Exc("ZeroDivisionError", <<"division by zero">>))>>),
  Snippet(<<"x = 5">>, FALSE, Both, <<Assign(<<"x">>, PyInt(5))>>),
  Snippet(<<"(x := 5)">>, TRUE, {"stmt"}, <<Assign(<<"x">>, PyInt(5))>>),
  Snippet(<<"x">>, TRUE, Both, <<Name(<<"x">>)>>),
  Snippet(<<"globals().get('x')">>, TRUE, {"stmt"}, <<GlobalsGet(<<"x">>)>>),
  Snippet(<<"import sys", LF, "print('a')", LF, "print('e', file=sys.stderr)">>, FALSE,
          {"block"},
          <<Emit("stdout", <<"a">>), Emit("stderr", <<"e">>)>>),
  Snippet(<<"import sys", LF, "print('a')", LF, "print('e', file=sys.stderr)", LF,
            "raise RuntimeError('boom')">>, FALSE, {"block"},
          <<Emit("stdout", <<"a">>), Emit("stderr", <<"e">>),
            Raise(Exc("RuntimeError", <<"boom">>))>>),
  Snippet(<<"exit()">>, TRUE, {"stmt"}, <<Raise(BaseExc("SystemExit", <<>>))>>),
  Snippet(<<"class E(Exception):", LF, "    def __str__(self): raise RuntimeError('nostr')",
            LF, "raise E()">>, FALSE, {"block"},
          <<Raise(BadStrExc("E"))>>),
  Snippet(<<"import builtins", LF, "builtins.x = 7">>, FALSE, {"block"},
          <<SetBuiltin(<<"x">>, PyInt(7))>>),
  Snippet(<<"package_name">>, TRUE, {"stmt"}, <<Name(<<"package_name">>)>>),
  Snippet(<<"print(package_name)">>, TRUE, {"block"}, <<PrintName(<<"package_name">>)>>),
  Snippet(<<"_", "secret">>, TRUE, {"stmt"}, <<Name(<<"_", "secret">>)>>),
  Snippet(<<"_", "_name__">>, TRUE, {"stmt"}, <<Name(<<"_", "_name__">>)>>),
  Snippet(<<"global package_name", LF, "package_name = 'evil'", LF, "print(package_name)", LF,
            "del package_name">>, FALSE, {"block"},
          <<AssignGlobal(<<"package_name">>, PyStr(<<"evil">>)), PrintName(<<"package_name">>),
            DelGlobal(<<"package_name">>)>>),
  Snippet(<<"print('{", "\"", "fake", "\"", ": 1}')", LF,
            "print('a", "\\", "nb", "\\", "\\", "n", "\\", "t')">>, FALSE, {"block"},
          <<Emit("stdout", <<"{", "\"", "fake", "\"", ": 1}">>),
            Emit("stdout", <<"a", LF, "b", "\\", "n", "\t">>)>>)
>>

\* What lies outside the process and stays as it is while the process
\* runs: the interpreter's reading of each source text (SnippetTable), and
\* the lines the writer of sys.stdin can send (Lines)
VARIABLES programs, stdin

\* The compile step of eval (mode "eval") and exec (mode "exec")
compile(code, mode) ==
  LET table == programs
      hits == {i \in 1..Len(table) :
                 /\ table[i].src = code
                 /\ (mode = "exec" \/ table[i].expr)}
  IN IF hits = {}
     THEN [ok |-> FALSE,
           exc |-> Exc("SyntaxError", <<"invalid syntax (<string>, line 1)">>)]
     ELSE [ok |-> TRUE, ops |-> table[CHOOSE i \in hits : TRUE].ops]

\* Name resolution of a snippet's top level: locals, then globals, then the
\* builtins module that globals["__builtins__"] refers to.
Bound(id, ls, gs, bs) == id \in DOMAIN ls \/ id \in DOMAIN gs \/ id \in DOMAIN bs

Resolve(id, ls, gs, bs) ==
  IF id \in DOMAIN ls THEN ls[id]
  ELSE IF id \in DOMAIN gs THEN gs[id]
  ELSE bs[id]

Put(f, id, val) == [n \in DOMAIN f \cup {id} |-> IF n = id THEN val ELSE f[n]]
Remove(f, id) == [n \in DOMAIN f \ {id} |-> f[n]]

\* One operation of a running snippet: whether it raises, the value it
\* yields, and what it leaves in the locals and in the builtins module.
Normal(val, ls, bs) == [raised |-> FALSE, val |-> val, locs |-> ls, builtins |-> bs]
Raised(exc, ls, bs) == [raised |-> TRUE, exc |-> exc, locs |-> ls, builtins |-> bs]

Exec(o, ls, gs, bs) ==
  CASE o.op = "const" -> Normal(o.val, ls, bs)
    [] o.op = "name" ->
         IF Bound(o.id, ls, gs, bs) THEN Normal(Resolve(o.id, ls, gs, bs), ls, bs)
         ELSE Raised(Exc("NameError", <<"name '">> \o o.id \o <<"' is not defined">>), ls, bs)
    [] o.op = "globals_get" ->
         Normal(IF o.id \in DOMAIN gs THEN gs[o.id] ELSE PyNone, ls, bs)
    [] o.op = "print" -> Normal(PyNone, ls, bs)
    [] o.op = "print_name" ->
         IF Bound(o.id, ls, gs, bs) THEN Normal(PyNone, ls, bs)
         ELSE Raised(Exc("NameError", <<"name '">> \o o.id \o <<"' is not defined">>), ls, bs)
    [] o.op = "assign" -> Normal(o.val, Put(ls, o.id, o.val), bs)
    [] o.op = "set_builtin" -> Normal(PyNone, ls, Put(bs, o.id, o.val))
    [] o.op = "assign_global" -> Normal(PyNone, ls, bs)
    [] o.op = "del_global" ->
         IF o.id \in DOMAIN gs THEN Normal(PyNone, ls, bs)
         ELSE Raised(Exc("NameError", <<"name '">> \o o.id \o <<"' is not defined">>), ls, bs)
    [] o.op = "raise" -> Raised(o.exc, ls, bs)

\* The builtins module every namespace refers to as __builtins__: of its
\* attributes, the one whose name a prelude unit also binds
BuiltinsModule == [n \in {<<"_", "_name__">>} |-> PyStr(<<"builtins">>)]

\* Variant of store_global: the snippet's globals are the PRELUDE dict itself
store_global_shared(o, gs, prelude) ==
  IF o.op = "assign_global"
  THEN [globs |-> Put(gs, o.id, o.val), prelude |-> Put(gs, o.id, o.val)]
  ELSE IF o.op = "del_global" /\ o.id \in DOMAIN gs
  THEN [globs |-> Remove(gs, o.id), prelude |-> Remove(gs, o.id)]
  ELSE [globs |-> gs, prelude |-> prelude]

\* What an operation that stores into or deletes from the snippet's globals
\* leaves in the globals and in PRELUDE: globs is a dict of its own that
\* PRELUDE was copied into, so PRELUDE keeps its entries
store_global(o, gs, prelude) ==
  IF o.op = "assign_global"
  THEN [globs |-> Put(gs, o.id, o.val), prelude |-> prelude]
  ELSE IF o.op = "del_global" /\ o.id \in DOMAIN gs
  THEN [globs |-> Remove(gs, o.id), prelude |-> prelude]
  ELSE [globs |-> gs, prelude |-> prelude]

----------------------------------------------------------------------------
\* The process environment: the values JAPAYA_PY_DIR can have and what the
\* directory it names holds.  isfile: <dir>/__init__.py exists; unit: the
\* top-level names the unit defines when executed (ok), or that executing
\* it raises.  Identifiers are text; a leading underscore is its own chunk.

PublicName == <<"package_name">>
PrivateName == <<"_", "secret">>

UnitVars ==
  [n \in {PublicName, PrivateName, <<"_", "_name__">>} |->
     IF n = PublicName THEN PyStr(<<"com.example">>)
     ELSE IF n = PrivateName THEN PyStr(<<"nope">>)
     ELSE PyStr(<<"japaya_prelude">>)]

EnvTable == <<
  [value |-> <<>>, isfile |-> FALSE, ok |-> TRUE, vars |-> <<>>],
  [value |-> <<Ws(" ")>>, isfile |-> FALSE, ok |-> TRUE, vars |-> <<>>],
  [value |-> <<Txt("/empty")>>, isfile |-> FALSE, ok |-> TRUE, vars |-> <<>>],
  [value |-> <<Txt("/pydir")>>, isfile |-> TRUE, ok |-> TRUE, vars |-> UnitVars],
  [value |-> <<Txt("/broken")>>, isfile |-> TRUE, ok |-> FALSE, vars |-> <<>>]
>>

\* Variant of startswith_underscore: only the name "_" is taken for private
\* (a comparison in place of the prefix test)
equals_underscore(name) == name = <<"_">>

startswith_underscore(name) == name # <<>> /\ name[1] = "_"

\* Variant of load_prelude: a unit that raises is taken for an absent one
load_prelude_lenient(dir) ==
  IF ~dir.isfile \/ ~dir.ok THEN [ok |-> TRUE, out |-> <<>>]
  ELSE [ok |-> TRUE,
        out |-> [n \in {m \in DOMAIN dir.vars : ~startswith_underscore(m)} |-> dir.vars[n]]]

\* Variant of load_prelude: no os.path.isfile check, a directory without
\* __init__.py makes the loader raise
load_prelude_unchecked(dir) ==
  IF ~dir.isfile
  THEN [ok |-> FALSE, exc |-> Exc("FileNotFoundError", <<"No such file or directory">>)]
  ELSE IF ~dir.ok
  THEN [ok |-> FALSE, exc |-> Exc("RuntimeError", <<"prelude failed">>)]
  ELSE [ok |-> TRUE,
        out |-> [n \in {m \in DOMAIN dir.vars : ~startswith_underscore(m)} |-> dir.vars[n]]]

\* load_prelude(py_dir): the public names of the executed unit, the empty
\* mapping when there is no __init__.py; raises when the unit raises.
load_prelude(dir) ==
  IF ~dir.isfile THEN [ok |-> TRUE, out |-> <<>>]
  ELSE IF ~dir.ok
  THEN [ok |-> FALSE, exc |-> Exc("RuntimeError", <<"prelude failed">>)]
  ELSE [ok |-> TRUE,
        out |-> [n \in {m \in DOMAIN dir.vars : ~startswith_underscore(m)} |-> dir.vars[n]]]

----------------------------------------------------------------------------
\* Input lines the protocol loop can be fed

Request(kind, code) == PyDict([kind |-> kind, code |-> code])

RequestLine(kind, code) == <<Doc(Request(PyStr(<<kind>>), code)), Ws(LF)>>

OtherLines == <<
  <<Ws(" "), Ws("\t"), Ws(LF)>>,
  <<Txt("{not json}"), Ws(LF)>>,
  <<Ws(" "), Doc(PyList(<<>>)), Ws(" "), Ws(LF)>>,
  RequestLine("stmt", PyInt(123)),
  RequestLine("expression", PyStr(<<"\"", "int x = 3;", "\"">>)),
  RequestLine("statement", PyStr(<<"x = 5">>)),
  <<Doc(PyNone), Ws(LF)>>,
  <<Doc(PyInt(3)), Ws(LF)>>,
  <<Doc(PyDict(<<>>)), Ws(LF)>>
>>

\* The lines are numbered: each text of SnippetTable as a "stmt" request,
\* then each as a "block" request, then OtherLines
NumSnippets == Len(SnippetTable)
NumLines == 2 * NumSnippets + Len(OtherLines)

LineOffered(i) ==
  IF i <= NumSnippets THEN "stmt" \in SnippetTable[i].kinds
  ELSE IF i <= 2 * NumSnippets THEN "block" \in SnippetTable[i - NumSnippets].kinds
  ELSE TRUE

LineText(i) ==
  IF i <= NumSnippets THEN RequestLine("stmt", PyStr(SnippetTable[i].src))
  ELSE IF i <= 2 * NumSnippets
  THEN RequestLine("block", PyStr(SnippetTable[i - NumSnippets].src))
  ELSE OtherLines[i - 2 * NumSnippets]

Lines == [i \in 1..NumLines |-> [offered |-> LineOffered(i), raw |-> LineText(i)]]

Offered(i) == stdin[i].offered
InputLine(i) == stdin[i].raw

----------------------------------------------------------------------------
\* State

VARIABLES
  pc,           \* "startup", "reading", "running" (inside eval/exec), "done", "crashed"
  environ,      \* the entry of EnvTable for JAPAYA_PY_DIR
  PRELUDE,      \* worker.PRELUDE
  builtins,     \* attributes of the shared builtins module (BuiltinsModule and what snippets set)
  sys_stdout,   \* the file sys.stdout is bound to
  sys_stderr,   \* the file sys.stderr is bound to
  old_targets,  \* what redirect_stdout / redirect_stderr saved on entry
  files,        \* content of each file object: the two real channels and the StringIO buffers
  flushed,      \* how much of the real output channel has been flushed
  read,         \* the lines read from sys.stdin so far, by their number in InputLine
  line,         \* main's line: the last line read, stripped
  req,          \* main's req: the value of the last line json.loads accepted
  responses,    \* the resp dicts main has written so far
  globs,        \* globals of the running snippet
  locs,         \* locals of the running snippet
  ops,          \* what is left of the running snippet
  result,       \* value of the last operation of the running snippet
  ran,          \* eval/exec began running the current request's snippet
  wrote,        \* text the current request's snippet wrote to each channel
  assigned,     \* names some snippet has bound by assignment so far
  exit_code     \* process exit status, -1 while the process lives

vars == <<programs, stdin, pc, environ, PRELUDE, builtins, sys_stdout, sys_stderr, old_targets, files,
          flushed, read, line, req, responses, globs, locs, ops, result, ran, wrote,
          assigned, exit_code>>

NoFiles ==
  [stdout |-> <<>>, stderr |-> <<>>, stdout_buf |-> <<>>, stderr_buf |-> <<>>,
   buf_out |-> <<>>, buf_err |-> <<>>]

NoWrites == [stdout |-> <<>>, stderr |-> <<>>]

write(fs, f, text) == [fs EXCEPT ![f] = @ \o text]

Init ==
  /\ programs = SnippetTable
  /\ stdin = Lines
  /\ pc = "startup"
  /\ \E i \in 1..Len(EnvTable) : environ = EnvTable[i]
  /\ PRELUDE = <<>>
  /\ builtins = BuiltinsModule
  /\ sys_stdout = "stdout"
  /\ sys_stderr = "stderr"
  /\ old_targets = <<"stdout", "stderr">>
  /\ files = NoFiles
  /\ flushed = 0
  /\ read = <<>>
  /\ line = <<>>
  /\ req = PyNone
  /\ responses = <<>>
  /\ globs = <<>>
  /\ locs = <<>>
  /\ ops = <<>>
  /\ result = PyNone
  /\ ran = FALSE
  /\ wrote = NoWrites
  /\ assigned = {}
  /\ exit_code = -1

----------------------------------------------------------------------------
\* main, before the loop

\* An exception that leaves main: the interpreter writes its traceback to
\* sys.stderr and exits with status 1; SystemExit exits silently with its
\* code (exit() has code 0).
die(fs, e, frames) ==
  /\ files' = (IF e.cls = "SystemExit" THEN fs
               ELSE write(fs, sys_stderr', format_exc(e, frames)))
  /\ exit_code' = (IF e.cls = "SystemExit" THEN 0 ELSE 1)
  /\ pc' = "crashed"

main_startup ==
  /\ pc = "startup"
  /\ UNCHANGED <<programs, stdin>>
  /\ UNCHANGED <<environ, builtins, sys_stdout, sys_stderr, old_targets, flushed, read,
                 line, req, responses, globs, locs, ops, result, ran, wrote, assigned>>
  /\ LET py_dir == strip(environ.value)
         loaded == load_prelude(environ)
     IN IF py_dir = <<>>
        THEN /\ PRELUDE' = PRELUDE
             /\ pc' = "reading"
             /\ UNCHANGED <<files, exit_code>>
        ELSE IF loaded.ok
        THEN /\ PRELUDE' = loaded.out
             /\ pc' = "reading"
             /\ UNCHANGED <<files, exit_code>>
        ELSE /\ PRELUDE' = PRELUDE
             /\ die(write(files, sys_stderr,
                          format_exc(loaded.exc, Frame("125", "main"))),
                    loaded.exc, Frame("125", "main"))

----------------------------------------------------------------------------
\* handle_request

\* Variant of RecognizedKinds: the tags are spelled out
RecognizedKinds_long == {<<"expression">>, <<"statement">>}

RecognizedKinds == {<<"stmt">>, <<"block">>}

Ok(out, stdout, stderr) == [ok |-> TRUE, out |-> out, stdout |-> stdout, stderr |-> stderr]

\* Variant of Err: the failure dict also carries an "out" key
Err_with_out(err, stdout, stderr) ==
  [ok |-> FALSE, err |-> err, out |-> <<>>, stdout |-> stdout, stderr |-> stderr]

Err(err, stdout, stderr) == [ok |-> FALSE, err |-> err, stdout |-> stdout, stderr |-> stderr]

\* Variant of validate: the type of code is checked before the kind
validate_code_first(r) ==
  IF r.t # "dict"
  THEN [ok |-> FALSE, frames |-> Frame("77", "handle_request"),
        exc |-> Exc("AttributeError", <<"'", r.t, "' object has no attribute 'get'">>)]
  ELSE IF dict_get(r, "code").t # "str"
  THEN [ok |-> FALSE, frames |-> Frame("83", "handle_request"),
        exc |-> Exc("TypeError", <<"code must be a string">>)]
  ELSE IF ~(dict_get(r, "kind").t = "str" /\ dict_get(r, "kind").v \in {<<"stmt">>, <<"block">>})
  THEN [ok |-> FALSE, frames |-> Frame("81", "handle_request"),
        exc |-> Exc("ValueError", <<"kind must be 'stmt' or 'block'">>)]
  ELSE [ok |-> TRUE]

\* Variant of validate: a value that is not a dict is treated as a dict
\* without keys
validate_nondict_as_empty(r) ==
  IF r.t # "dict"
  THEN [ok |-> FALSE, frames |-> Frame("81", "handle_request"),
        exc |-> Exc("ValueError", <<"kind must be 'stmt' or 'block'">>)]
  ELSE IF ~(dict_get(r, "kind").t = "str" /\ dict_get(r, "kind").v \in RecognizedKinds)
  THEN [ok |-> FALSE, frames |-> Frame("81", "handle_request"),
        exc |-> Exc("ValueError", <<"kind must be 'stmt' or 'block'">>)]
  ELSE IF dict_get(r, "code").t # "str"
  THEN [ok |-> FALSE, frames |-> Frame("83", "handle_request"),
        exc |-> Exc("TypeError", <<"code must be a string">>)]
  ELSE [ok |-> TRUE]

\* Lines 77-83: the field lookups and the two checks
validate(r) ==
  IF r.t # "dict"
  THEN [ok |-> FALSE, frames |-> Frame("77", "handle_request"),
        exc |-> Exc("AttributeError", <<"'", r.t, "' object has no attribute 'get'">>)]
  ELSE IF ~(dict_get(r, "kind").t = "str" /\ dict_get(r, "kind").v \in RecognizedKinds)
  THEN [ok |-> FALSE, frames |-> Frame("81", "handle_request"),
        exc |-> Exc("ValueError", <<"kind must be 'stmt' or 'block'">>)]
  ELSE IF dict_get(r, "code").t # "str"
  THEN [ok |-> FALSE, frames |-> Frame("83", "handle_request"),
        exc |-> Exc("TypeError", <<"code must be a string">>)]
  ELSE [ok |-> TRUE]

IsStmt(r) == dict_get(r, "kind").v = <<"stmt">>

\* The call chain from handle_request into the snippet
CallFrames(r) ==
  IF IsStmt(r)
  THEN Frame("88", "handle_request") \o Frame("45", "run_stmt")
  ELSE Frame("99", "handle_request") \o Frame("66", "run_block")

\* Variant of Namespace: one globals mapping serves every request and keeps
\* what earlier snippets bound
Namespace_reused(prelude) ==
  [n \in {<<"_", "_builtins__">>} \cup DOMAIN prelude \cup DOMAIN locs |->
     IF n \in DOMAIN locs THEN locs[n]
     ELSE IF n \in DOMAIN prelude THEN prelude[n] ELSE PyModule("builtins")]

\* globs = {"__builtins__": __builtins__}; globs.update(PRELUDE)
Namespace(prelude) ==
  [n \in {<<"_", "_builtins__">>} \cup DOMAIN prelude |->
     IF n \in DOMAIN prelude THEN prelude[n] ELSE PyModule("builtins")]

\* The buffers the snippet's output is redirected into: handle_request's
\* for "stmt" (line 87), run_block's own for "block" (line 65)
OutTarget(r) == IF IsStmt(r) THEN "stdout_buf" ELSE "buf_out"
ErrTarget(r) == IF IsStmt(r) THEN "stderr_buf" ELSE "buf_err"

\* Variant of run_stmt_return: None is not special-cased
run_stmt_return_plain(val) == str(val)

\* Line 46 of run_stmt
run_stmt_return(val) == IF val.t = "NoneType" THEN <<>> ELSE str(val)

\* Variant of success: "block" reports the captured stdout in both fields
success_stdout_twice(r, fs, val) ==
  IF IsStmt(r)
  THEN Ok(run_stmt_return(val), fs.stdout_buf, fs.stderr_buf)
  ELSE Ok(fs.buf_out, fs.buf_out, fs.buf_err)

\* Lines 89-94 and 99-105: the response of a snippet that returned
success(r, fs, val) ==
  IF IsStmt(r)
  THEN Ok(run_stmt_return(val), fs.stdout_buf, fs.stderr_buf)
  ELSE Ok(fs.buf_out, <<>>, fs.buf_err)

\* Lines 107-115: stderr_buf.write(traceback.format_exc()), then the dict
except_files(fs, e, frames) == write(fs, "stderr_buf", format_exc(e, frames))

failure(fs, e, frames) ==
  Err(e.msg, except_files(fs, e, frames).stdout_buf,
      except_files(fs, e, frames).stderr_buf)

\* `except Exception` catches e and str(e) returns
Caught(e) == e.isException /\ e.strOK

\* What leaves handle_request when e is not caught, or str(e) raises
Escaping(e) == IF e.isException THEN Exc("RuntimeError", <<"nostr">>) ELSE e

----------------------------------------------------------------------------
\* main's loop

\* Variant of answer: the response is written and not flushed
answer_unflushed(fs, r) ==
  /\ files' = write(fs, sys_stdout', json_dumps(r) \o <<LF>>)
  /\ flushed' = flushed
  /\ responses' = Append(responses, r)
  /\ pc' = "reading"

\* sys.stdout.write(json.dumps(resp) + "\n"); sys.stdout.flush()
answer(fs, r) ==
  /\ files' = write(fs, sys_stdout', json_dumps(r) \o <<LF>>)
  /\ flushed' = (IF sys_stdout' = "stdout" THEN Len(files'.stdout) ELSE flushed)
  /\ responses' = Append(responses, r)
  /\ pc' = "reading"

\* Variant of invalid_json: err is the decoder's message alone
invalid_json_bare(e) ==
  Err(e.msg, <<>>, format_exc(e, Frame("138", "main") \o Frame("346", "loads")))

\* Lines 140-145: the response to a line json.loads rejects
invalid_json(e) ==
  Err(<<"invalid JSON request: ">> \o e.msg, <<>>,
      format_exc(e, Frame("138", "main") \o Frame("346", "loads")))

\* Lines 133-138 on line number i: blank once stripped, or what json.loads
\* makes of the stripped line
json_loads_input(i) ==
  LET stripped == strip(InputLine(i))
  IN IF stripped = <<>> THEN [blank |-> TRUE, ok |-> FALSE]
     ELSE IF json_loads(stripped).ok
     THEN [blank |-> FALSE, ok |-> TRUE, val |-> json_loads(stripped).val]
     ELSE [blank |-> FALSE, ok |-> FALSE, exc |-> json_loads(stripped).exc]

NextLine(i) ==
  /\ pc = "reading"
  /\ Len(read) < MaxLines
  /\ Offered(i)
  /\ read' = Append(read, i)
  /\ line' = strip(InputLine(i))

\* Lines 133-135: a line that is empty once stripped
main_skip_blank ==
  \E i \in DOMAIN stdin :
    /\ NextLine(i)
    /\ json_loads_input(i).blank
    /\ ran' = FALSE
    /\ wrote' = NoWrites
    /\ UNCHANGED <<programs, stdin>>
    /\ UNCHANGED <<pc, environ, PRELUDE, builtins, sys_stdout, sys_stderr, old_targets,
                   files, flushed, req, responses, globs, locs, ops, result, assigned,
                   exit_code>>

\* Lines 137-148: json.loads raised
main_invalid_json ==
  \E i \in DOMAIN stdin :
    LET dec == json_loads_input(i)
    IN /\ NextLine(i)
       /\ ~dec.blank
       /\ ~dec.ok
       /\ ran' = FALSE
       /\ wrote' = NoWrites
       /\ UNCHANGED <<programs, stdin>>
       /\ UNCHANGED <<environ, PRELUDE, builtins, sys_stdout, sys_stderr, old_targets,
                      req, globs, locs, ops, result, assigned, exit_code>>
       /\ answer(files, invalid_json(dec.exc))

\* Line 150, when handle_request raises before the snippet runs: a failed
\* lookup or check, or a SyntaxError from eval/exec (raised inside the
\* redirection, which is left again before the except clause runs)
handle_request_reject ==
  \E i \in DOMAIN stdin :
    LET dec == json_loads_input(i)
        r == dec.val
        chk == validate(r)
        prog == compile(dict_get(r, "code").v, IF IsStmt(r) THEN "eval" ELSE "exec")
        fresh == [files EXCEPT !.stdout_buf = <<>>, !.stderr_buf = <<>>]
        entered == IF IsStmt(r) THEN fresh
                   ELSE [fresh EXCEPT !.buf_out = <<>>, !.buf_err = <<>>]
    IN /\ NextLine(i)
       /\ ~dec.blank
       /\ dec.ok
       /\ ~(chk.ok /\ prog.ok)
       /\ ran' = FALSE
       /\ wrote' = NoWrites
       /\ req' = r
       /\ UNCHANGED <<programs, stdin>>
       /\ UNCHANGED <<environ, PRELUDE, builtins, sys_stdout, sys_stderr, old_targets,
                      globs, locs, ops, result, assigned, exit_code>>
       /\ IF ~chk.ok
          THEN answer(except_files(fresh, chk.exc, chk.frames),
                      failure(fresh, chk.exc, chk.frames))
          ELSE answer(except_files(entered, prog.exc, CallFrames(r)),
                      failure(entered, prog.exc, CallFrames(r)))

\* Line 150, up to the point where eval/exec starts running the snippet:
\* the redirection is entered and the snippet gets a new namespace
handle_request_run ==
  \E i \in DOMAIN stdin :
    LET dec == json_loads_input(i)
        r == dec.val
        prog == compile(dict_get(r, "code").v, IF IsStmt(r) THEN "eval" ELSE "exec")
    IN /\ NextLine(i)
       /\ ~dec.blank
       /\ dec.ok
       /\ validate(r).ok
       /\ prog.ok
       /\ req' = r
       /\ files' = (IF IsStmt(r)
                    THEN [files EXCEPT !.stdout_buf = <<>>, !.stderr_buf = <<>>]
                    ELSE [files EXCEPT !.stdout_buf = <<>>, !.stderr_buf = <<>>,
                                       !.buf_out = <<>>, !.buf_err = <<>>])
       /\ old_targets' = <<sys_stdout, sys_stderr>>
       /\ sys_stdout' = OutTarget(r)
       /\ sys_stderr' = ErrTarget(r)
       /\ globs' = Namespace(PRELUDE)
       /\ locs' = <<>>
       /\ ops' = prog.ops
       /\ result' = PyNone
       /\ ran' = TRUE
       /\ wrote' = NoWrites
       /\ pc' = "running"
       /\ UNCHANGED <<programs, stdin>>
       /\ UNCHANGED <<environ, PRELUDE, builtins, flushed, responses, assigned, exit_code>>

----------------------------------------------------------------------------
\* The snippet, one operation at a time, and the ways it ends

\* The operation about to run, its outcome, and the files once it has
\* written what it writes (a print goes to whatever sys.stdout or
\* sys.stderr is bound to at that moment)
Current == Head(ops)
Outcome == Exec(Current, locs, globs, builtins)

\* What print() writes: the text, or str() of the named value, and a line feed
Printed ==
  IF Current.op = "print" THEN Current.text \o <<LF>>
  ELSE str(Resolve(Current.id, locs, globs, builtins)) \o <<LF>>

Prints == Current.op = "print" \/ (Current.op = "print_name" /\ ~Outcome.raised)

AfterOp ==
  IF Prints
  THEN write(files, IF Current.file = "stdout" THEN sys_stdout ELSE sys_stderr, Printed)
  ELSE files

WroteAfterOp ==
  IF Prints
  THEN [wrote EXCEPT ![Current.file] = @ \o Printed]
  ELSE wrote

Effects ==
  /\ locs' = Outcome.locs
  /\ builtins' = Outcome.builtins
  /\ wrote' = WroteAfterOp
  /\ assigned' = (IF Current.op = "assign" THEN assigned \cup {Current.id} ELSE assigned)
  /\ globs' = store_global(Current, globs, PRELUDE).globs
  /\ PRELUDE' = store_global(Current, globs, PRELUDE).prelude

\* Variant of leave_redirect: sys.stdout is left bound to the buffer
leave_redirect_stderr_only ==
  /\ sys_stdout' = sys_stdout
  /\ sys_stderr' = old_targets[2]

\* redirect_stdout.__exit__ / redirect_stderr.__exit__
leave_redirect ==
  /\ sys_stdout' = old_targets[1]
  /\ sys_stderr' = old_targets[2]

\* An operation that returns, with more of the snippet to run
snippet_step ==
  /\ pc = "running"
  /\ ~Outcome.raised
  /\ Tail(ops) # <<>>
  /\ Effects
  /\ files' = AfterOp
  /\ result' = Outcome.val
  /\ ops' = Tail(ops)
  /\ UNCHANGED <<programs, stdin>>
  /\ UNCHANGED <<pc, environ, sys_stdout, sys_stderr, old_targets, flushed, read,
                 line, req, responses, ran, exit_code>>

\* The last operation returns: eval/exec return, the redirection is left,
\* handle_request returns the success dict and main writes it
handle_request_return ==
  /\ pc = "running"
  /\ ~Outcome.raised
  /\ Tail(ops) = <<>>
  /\ Effects
  /\ result' = Outcome.val
  /\ ops' = <<>>
  /\ leave_redirect
  /\ answer(AfterOp, success(req, AfterOp, Outcome.val))
  /\ UNCHANGED <<programs, stdin>>
  /\ UNCHANGED <<environ, old_targets, read, line, req, ran, exit_code>>

\* An operation raises what `except Exception` catches: the redirection is
\* left, handle_request returns the failure dict and main writes it
handle_request_except ==
  /\ pc = "running"
  /\ Outcome.raised
  /\ Caught(Outcome.exc)
  /\ Effects
  /\ leave_redirect
  /\ answer(except_files(AfterOp, Outcome.exc, CallFrames(req) \o SnippetFrame),
            failure(AfterOp, Outcome.exc, CallFrames(req) \o SnippetFrame))
  /\ UNCHANGED <<programs, stdin>>
  /\ UNCHANGED <<environ, old_targets, read, line, req, ops, result, ran, exit_code>>

\* An operation raises what handle_request does not turn into a dict: an
\* exception outside Exception, or one whose str() raises at line 112.
\* It leaves handle_request and main; the process ends.
handle_request_escape ==
  /\ pc = "running"
  /\ Outcome.raised
  /\ ~Caught(Outcome.exc)
  /\ Effects
  /\ leave_redirect
  /\ die(IF Outcome.exc.isException
         THEN except_files(AfterOp, Outcome.exc, CallFrames(req) \o SnippetFrame)
         ELSE AfterOp,
         Escaping(Outcome.exc), Frame("150", "main"))
  /\ UNCHANGED <<programs, stdin>>
  /\ UNCHANGED <<environ, old_targets, flushed, read, line, req, responses, ops, result,
                 ran>>

\* sys.stdin is at end-of-stream: the loop ends and main returns
main_eof ==
  /\ pc = "reading"
  /\ pc' = "done"
  /\ exit_code' = 0
  /\ UNCHANGED <<programs, stdin>>
  /\ UNCHANGED <<environ, PRELUDE, builtins, sys_stdout, sys_stderr, old_targets, files,
                 flushed, read, line, req, responses, globs, locs, ops, result, ran, wrote,
                 assigned>>

Next ==
  \/ main_startup
  \/ main_skip_blank
  \/ main_invalid_json
  \/ handle_request_reject
  \/ handle_request_run
  \/ snippet_step
  \/ handle_request_return
  \/ handle_request_except
  \/ handle_request_escape
  \/ main_eof

Spec == Init /\ [][Next]_vars

----------------------------------------------------------------------------
\* Properties

Last(seq) == seq[Len(seq)]

Count(text, c) == Cardinality({i \in 1..Len(text) : text[i] = c})

Contains(text, c) == \E i \in 1..Len(text) : text[i] = c

StartsWith(text, prefix) ==
  /\ Len(text) >= Len(prefix)
  /\ SubSeq(text, 1, Len(prefix)) = prefix

\* The loop is between lines and the last line it read was not blank:
\* Last(responses) is the response to that line
Answered ==
  /\ pc \in {"reading", "done"}
  /\ read # <<>>
  /\ line # <<>>

\* The last line read decoded to a dict that passed both checks
IsRequest == json_loads(line).ok /\ validate(req).ok

IsTrace(text) ==
  /\ StartsWith(text, <<TraceHeader, LF>>)
  /\ Last(text) = LF

RECURSIVE NonBlank(_)
NonBlank(lines) ==
  IF lines = <<>> THEN 0
  ELSE (IF strip(InputLine(lines[1])) = <<>> THEN 0 ELSE 1) + NonBlank(Tail(lines))

\* C1: whenever the loop is not inside a request, the number of response
\* lines on the output channel equals the number of non-blank lines read so
\* far (one response per non-blank line, none per blank line, in order).
C1_OneResponsePerNonBlankLine ==
  pc \in {"reading", "done", "crashed"} =>
    /\ Len(responses) = NonBlank(read)
    /\ Count(files.stdout, LF) = NonBlank(read)

\* C2: nothing a snippet raises leaves handle_request or main: the process
\* never ends because of a snippet, so it is never found crashed after a
\* snippet ran.
C2_NothingEscapes == ~(pc = "crashed" /\ ran)

\* C3: a failure response of a snippet that ran carries what the snippet
\* wrote before failing: stdout is the primary text written, stderr is the
\* diagnostic text written followed by the trace.
C3_FailureKeepsPartialOutput ==
  (Answered /\ ran /\ ~Last(responses).ok) =>
    /\ Last(responses).stdout = wrote.stdout
    /\ StartsWith(Last(responses).stderr, wrote.stderr)
    /\ IsTrace(SubSeq(Last(responses).stderr, Len(wrote.stderr) + 1,
                      Len(Last(responses).stderr)))

----------------------------------------------------------------------------
\* What the last line read asks for (meaningful when IsRequest holds)
CurKind == dict_get(req, "kind")
CurCode == dict_get(req, "code")
CurProgram == compile(CurCode.v, IF IsStmt(req) THEN "eval" ELSE "exec")

\* The snippet of the last line read ran and its last operation returned
Completed == ran /\ ops = <<>>

\* The snippet of the last line read is the single operation o on name n
Only(o, n) ==
  /\ CurProgram.ok
  /\ Len(CurProgram.ops) = 1
  /\ CurProgram.ops[1].op = o
  /\ CurProgram.ops[1].id = n

NameErrorText(n) == <<"name '">> \o n \o <<"' is not defined">>

RECURSIVE Encoded(_)
Encoded(rs) ==
  IF rs = <<>> THEN <<>> ELSE json_dumps(rs[1]) \o <<LF>> \o Encoded(Tail(rs))

\* C5: while a snippet runs both channels are bound to buffers; whenever no
\* snippet runs they are bound to the real channels again; the real output
\* channel holds the encoded responses and nothing else, and nothing
\* reaches the real diagnostic channel while the worker lives.
C5_CaptureScoped ==
  /\ pc = "running" =>
       /\ sys_stdout \in {"stdout_buf", "buf_out"}
       /\ sys_stderr \in {"stderr_buf", "buf_err"}
  /\ pc # "running" => (sys_stdout = "stdout" /\ sys_stderr = "stderr")
  /\ files.stdout = Encoded(responses)
  /\ pc # "crashed" => files.stderr = <<>>

C5_Witness ==
  /\ Answered /\ ran
  /\ wrote.stdout # <<>>
  /\ wrote.stderr # <<>>
  /\ ~Last(responses).ok
  /\ sys_stdout = "stdout"

ErrShape == {"ok", "err", "stdout", "stderr"}
OkShape == {"ok", "out", "stdout", "stderr"}

BadJson(i) == strip(InputLine(i)) # <<>> /\ ~json_loads(strip(InputLine(i))).ok

\* C6: a line json.loads rejects leaves the loop reading, runs no snippet
\* and adds exactly one response: ok false, err starting with
\* "invalid JSON request: ", stdout empty, stderr a trace; a well-formed
\* line that follows it is answered as usual.
C6_InvalidJsonState ==
  /\ (read # <<>> /\ BadJson(Last(read))) =>
       /\ pc \in {"reading", "done"}
       /\ ~ran
       /\ responses # <<>>
       /\ DOMAIN Last(responses) = ErrShape
       /\ ~Last(responses).ok
       /\ StartsWith(Last(responses).err, <<"invalid JSON request: ">>)
       /\ Len(Last(responses).err) > 1
       /\ Last(responses).stdout = <<>>
       /\ IsTrace(Last(responses).stderr)
       /\ Contains(Last(responses).stderr, "json.decoder.JSONDecodeError")
  /\ (Len(read) >= 2 /\ BadJson(read[Len(read) - 1]) /\ Answered /\ IsRequest
        /\ IsStmt(req) /\ CurCode.v = <<"(x := 5)">>) =>
       Last(responses) = Ok(<<"5">>, <<>>, <<>>)

C6_InvalidJsonStep ==
  (read' # read /\ BadJson(Last(read'))) =>
    /\ Len(responses') = Len(responses) + 1
    /\ Count(files'.stdout, LF) = Count(files.stdout, LF) + 1

C6_InvalidJsonAnswered == [] C6_InvalidJsonState /\ [][C6_InvalidJsonStep]_vars

C6_Witness ==
  /\ Len(read) >= 2
  /\ BadJson(read[Len(read) - 1])
  /\ Answered /\ IsRequest
  /\ Last(responses).ok
  /\ ~responses[Len(responses) - 1].ok

\* C7: a "block" snippet that ran to completion is answered with ok true,
\* out exactly what it wrote to stdout, stdout empty and stderr exactly what
\* it wrote to stderr.
C7_BlockSuccess ==
  (Answered /\ IsRequest /\ ~IsStmt(req) /\ Completed) =>
    Last(responses) = Ok(wrote.stdout, <<>>, wrote.stderr)

C7_Witness ==
  /\ Answered /\ IsRequest /\ ~IsStmt(req) /\ Completed
  /\ wrote.stdout # <<>>
  /\ wrote.stderr # <<>>
  /\ Last(responses).ok

\* C8: a "stmt" expression that evaluated is answered with ok true, out the
\* str() of its value, or the empty string when the value is None, and
\* what it wrote in passing is in stdout and stderr, not in out.
C8_StmtSuccess ==
  (Answered /\ IsRequest /\ IsStmt(req) /\ Completed) =>
    /\ DOMAIN Last(responses) = OkShape
    /\ Last(responses).ok
    /\ Last(responses).out = (IF result.t = "NoneType" THEN <<>> ELSE str(result))
    /\ Last(responses).stdout = wrote.stdout
    /\ Last(responses).stderr = wrote.stderr
    /\ CurCode.v = <<"None">> => Last(responses).out = <<>>
    /\ CurCode.v = <<"(x := 5)">> => Last(responses).out = <<"5">>
    /\ CurCode.v = <<"\"", "int x = 3;", "\"">> => Last(responses).out = <<"int x = 3;">>
    /\ CurCode.v = <<"(print(", "\"", "hi", "\"", "), ", "\"", "ok", "\"", ")[1]">> =>
         Last(responses) = Ok(<<"ok">>, <<"hi", LF>>, <<>>)

C8_Witness ==
  /\ Answered /\ IsRequest /\ IsStmt(req) /\ Completed
  /\ result.t = "NoneType"
  /\ Last(responses).ok
  /\ Last(responses).out = <<>>

Recognized(kind) == kind.t = "str" /\ kind.v \in {<<"stmt">>, <<"block">>}

\* C9: a request dict whose kind is not "stmt" or "block" (or is missing) is
\* answered with the kind message whatever its code, and one with a
\* recognized kind and a code that is not a string with the type message;
\* in both cases no snippet ran, stdout is empty and stderr is a trace.
C9_Validation ==
  (read # <<>> /\ line # <<>> /\ json_loads(line).ok /\ req.t = "dict"
     /\ ~(Recognized(CurKind) /\ CurCode.t = "str")) =>
    /\ pc \in {"reading", "done"}
    /\ ~ran
    /\ responses # <<>>
    /\ DOMAIN Last(responses) = ErrShape
    /\ ~Last(responses).ok
    /\ Last(responses).stdout = <<>>
    /\ IsTrace(Last(responses).stderr)
    /\ IF ~Recognized(CurKind)
       THEN /\ Last(responses).err = <<"kind must be 'stmt' or 'block'">>
            /\ Contains(Last(responses).stderr, "ValueError")
       ELSE /\ Last(responses).err = <<"code must be a string">>
            /\ Contains(Last(responses).stderr, "TypeError")

C9_Witness ==
  /\ Answered /\ json_loads(line).ok /\ req.t = "dict"
  /\ "kind" \notin DOMAIN req.v
  /\ CurCode.t # "str"
  /\ Last(responses).err = <<"kind must be 'stmt' or 'block'">>

IsText(x) == x \in Seq(STRING)

\* C10: every response written is one of the two shapes: ok true with out,
\* stdout, stderr and no err, or ok false with err, stdout, stderr and no
\* out; every field but ok is text.
C10_ResponseShape ==
  \A i \in 1..Len(responses) :
    /\ \/ (DOMAIN responses[i] = OkShape /\ responses[i].ok = TRUE
             /\ IsText(responses[i].out))
       \/ (DOMAIN responses[i] = ErrShape /\ responses[i].ok = FALSE
             /\ IsText(responses[i].err))
    /\ IsText(responses[i].stdout)
    /\ IsText(responses[i].stderr)

C10_Witness ==
  /\ Len(responses) >= 2
  /\ responses[1].ok
  /\ ~responses[2].ok
  /\ ran

----------------------------------------------------------------------------
\* A prelude unit was loaded at startup
Loaded ==
  /\ pc # "startup"
  /\ strip(environ.value) # <<>>
  /\ environ.isfile
  /\ environ.ok

Private(n) == n[1] = "_"

\* The mapping holds exactly the public bindings of the unit, every snippet
\* starts with them in its globals, and a request reading one is answered
\* with its value in both modes
PublicExposed ==
  /\ \A n \in DOMAIN PRELUDE : ~Private(n)
  /\ \A n \in DOMAIN environ.vars :
       ~Private(n) =>
         /\ n \in DOMAIN PRELUDE
         /\ PRELUDE[n] = environ.vars[n]
         /\ (pc = "running" /\ ops = CurProgram.ops) =>
              (n \in DOMAIN globs /\ globs[n] = environ.vars[n])
         /\ (Answered /\ IsRequest /\ IsStmt(req) /\ Only("name", n)) =>
              Last(responses) = Ok(str(environ.vars[n]), <<>>, <<>>)
         /\ (Answered /\ IsRequest /\ ~IsStmt(req) /\ Only("print_name", n)) =>
              Last(responses) = Ok(str(environ.vars[n]) \o <<LF>>, <<>>, <<>>)

----------------------------------------------------------------------------
\* JAPAYA_PY_DIR names a directory whose __init__.py raises when executed
LoadFails ==
  /\ strip(environ.value) # <<>>
  /\ environ.isfile
  /\ ~environ.ok

\* C12: when loading the prelude unit fails, the process never enters the
\* loop: once startup is over it has ended with a nonzero exit status, the
\* trace of the failure is on the diagnostic channel, no line was read, no
\* snippet ran and nothing was written to the output channel.
C12_StartupFailureFatal ==
  LoadFails =>
    /\ pc \in {"startup", "crashed"}
    /\ read = <<>>
    /\ responses = <<>>
    /\ files.stdout = <<>>
    /\ ~ran
    /\ pc = "startup" => (exit_code = -1 /\ files.stderr = <<>>)
    /\ pc = "crashed" =>
         /\ exit_code > 0
         /\ StartsWith(files.stderr, <<TraceHeader, LF>>)
         /\ Contains(files.stderr, "RuntimeError")
         /\ Last(files.stderr) = LF

C12_Witness ==
  /\ LoadFails
  /\ pc = "crashed"
  /\ exit_code = 1
  /\ files.stderr # <<>>

\* JAPAYA_PY_DIR is unset, empty or white space, or names a directory
\* without __init__.py
Absent == strip(environ.value) = <<>> \/ ~environ.isfile

\* C13: when no prelude unit is configured or present, startup raises
\* nothing and writes nothing, the mapping stays empty, the worker enters
\* the loop, every snippet starts with globals that hold __builtins__
\* alone, and requests are served: a literal is answered with its text, a
\* name the prelude would have bound with a NameError failure.
C13_AbsenceSilent ==
  (Absent /\ pc # "startup") =>
    /\ PRELUDE = <<>>
    /\ read = <<>> => (pc \in {"reading", "done"} /\ files = NoFiles
                         /\ exit_code \in {-1, 0})
    /\ (pc = "running" /\ ops = CurProgram.ops) =>
         (DOMAIN globs = {<<"_", "_builtins__">>} /\ locs = <<>>)
    /\ (Answered /\ IsRequest /\ IsStmt(req) /\ CurCode.v = <<"\"", "int x = 3;", "\"">>) =>
         Last(responses) = Ok(<<"int x = 3;">>, <<>>, <<>>)
    /\ (Answered /\ IsRequest /\ Only("name", PublicName)) =>
         (~Last(responses).ok /\ Last(responses).err = NameErrorText(PublicName))

C13_Witness ==
  /\ Absent
  /\ environ.value # <<>>
  /\ Answered /\ IsRequest
  /\ Only("name", PublicName)
  /\ ~Last(responses).ok

----------------------------------------------------------------------------
\* What startup leaves in PRELUDE: the public bindings of the unit, or nothing
AtStartup ==
  IF Loaded
  THEN [n \in {m \in DOMAIN environ.vars : ~Private(m)} |-> environ.vars[n]]
  ELSE <<>>

C14_WriteOnceState ==
  LET loaded == AtStartup
  IN /\ pc = "startup" => PRELUDE = <<>>
     /\ pc # "startup" => PRELUDE = loaded
     /\ (pc = "running" /\ ops = CurProgram.ops) =>
          \A n \in DOMAIN loaded : n \in DOMAIN globs /\ globs[n] = loaded[n]
     /\ (Answered /\ IsRequest /\ IsStmt(req) /\ Only("name", PublicName) /\ Loaded) =>
          Last(responses) = Ok(str(loaded[PublicName]), <<>>, <<>>)

C14_WriteOnceStep ==
  PRELUDE' # PRELUDE => (pc = "startup" /\ read = <<>> /\ read' = <<>>)

\* C14: PRELUDE is assigned at most once, at startup before the first line
\* is read, and no step after that changes it; every snippet starts with
\* the startup bindings in its globals, so a request that reads a prelude
\* name is answered with the startup value, also after an earlier request
\* rebound and deleted that name in its own globals.
C14_WriteOnce == [] C14_WriteOnceState /\ [][C14_WriteOnceStep]_vars

C14_Witness ==
  /\ Loaded
  /\ Answered /\ IsRequest /\ IsStmt(req)
  /\ Only("name", PublicName)
  /\ Len(responses) = 2
  /\ responses[1] = Ok(<<"evil", LF>>, <<>>, <<>>)
  /\ responses[2] = Ok(<<"com.example">>, <<>>, <<>>)

----------------------------------------------------------------------------
\* The process has ended
Terminated == exit_code # -1

\* C15: the process ends only at end-of-stream, with exit status 0 and a
\* response written and flushed for every non-blank line it read; the one
\* exception is a prelude load failure at startup, which ends it with a
\* nonzero status.
C15_CleanTermination ==
  Terminated =>
    IF LoadFails THEN exit_code # 0
    ELSE /\ pc = "done"
         /\ exit_code = 0
         /\ Len(responses) = NonBlank(read)
         /\ flushed = Len(files.stdout)

----------------------------------------------------------------------------
\* The last line read decoded to a dict whose kind is the text k
KindIs(k) ==
  /\ json_loads(line).ok
  /\ req.t = "dict"
  /\ CurKind = PyStr(<<k>>)

Example == <<"\"", "int x = 3;", "\"">>

\* C16 as stated: a request whose kind is "expression" is accepted and
\* evaluated as an expression, one whose kind is "statement" is accepted
\* and executed as statements; kind "expression" with code "int x = 3;"
\* (quoted) is answered ok, out the text, stdout and stderr empty.
C16_LongTagsAccepted ==
  /\ (Answered /\ (KindIs("expression") \/ KindIs("statement")) /\ CurCode.t = "str") =>
       (ran /\ Last(responses).ok)
  /\ (Answered /\ KindIs("expression") /\ CurCode = PyStr(Example)) =>
       Last(responses) = Ok(<<"int x = 3;">>, <<>>, <<>>)

\* C16 amended: the tags are "stmt" and "block".  A request whose kind is
\* "stmt" is evaluated as an expression (a text that is statements and no
\* expression is a SyntaxError), one whose kind is "block" is executed as
\* statements; kind "stmt" with code "int x = 3;" (quoted) is answered with
\* the line {"ok": true, "out": "int x = 3;", "stdout": "", "stderr": ""};
\* "expression" and "statement" are rejected with the kind message.
C16_WireTags ==
  /\ (Answered /\ KindIs("stmt") /\ CurCode = PyStr(Example)) =>
       /\ ran
       /\ Last(responses) = Ok(<<"int x = 3;">>, <<>>, <<>>)
       /\ json_dumps(Last(responses)) =
            <<"{", "\"ok\": ", "true", ", ", "\"out\": ", "\"", "int x = 3;", "\"",
              ", ", "\"stdout\": ", "\"", "\"", ", ", "\"stderr\": ", "\"", "\"", "}">>
  /\ (Answered /\ KindIs("stmt") /\ CurCode = PyStr(<<"x = 5">>)) =>
       /\ ~ran
       /\ ~Last(responses).ok
       /\ Contains(Last(responses).stderr, "SyntaxError")
  /\ (Answered /\ KindIs("block") /\ CurCode = PyStr(<<"x = 5">>)) =>
       /\ ran
       /\ Last(responses) = Ok(<<>>, <<>>, <<>>)
  /\ (Answered /\ (KindIs("expression") \/ KindIs("statement"))) =>
       /\ ~ran
       /\ ~Last(responses).ok
       /\ Last(responses).err = <<"kind must be 'stmt' or 'block'">>

C16_Witness ==
  /\ Answered
  /\ KindIs("expression")
  /\ CurCode = PyStr(Example)
  /\ Len(responses) = 2
  /\ responses[1] = Ok(<<"int x = 3;">>, <<>>, <<>>)
  /\ ~responses[2].ok

----------------------------------------------------------------------------
C17_SequencedState ==
  /\ pc \in {"reading", "done"} =>
       /\ Len(responses) = NonBlank(read)
       /\ flushed = Len(files.stdout)
  /\ pc = "running" =>
       /\ Len(responses) = NonBlank(read) - 1
       /\ flushed = Len(files.stdout)

C17_SequencedStep ==
  /\ read' # read =>
       /\ pc = "reading"
       /\ Len(read') = Len(read) + 1
       /\ Len(responses) = NonBlank(read)
       /\ flushed = Len(files.stdout)
  /\ files'.stdout # files.stdout =>
       /\ Len(responses') = Len(responses) + 1
       /\ files'.stdout = files.stdout \o json_dumps(Last(responses')) \o <<LF>>
       /\ flushed' = Len(files'.stdout)
  /\ pc = "running" => read' = read

\* C17: a line is read only when every non-blank line read before it has
\* its response on the output channel, flushed; while a snippet runs no
\* line is read and exactly one request is unanswered; every step that
\* writes to the output channel writes one response line and leaves the
\* channel flushed.
C17_StrictSequencing == [] C17_SequencedState /\ [][C17_SequencedStep]_vars

C17_Witness ==
  /\ pc = "reading"
  /\ Len(read) = 2
  /\ NonBlank(read) = 2
  /\ Len(responses) = 2
  /\ ran
  /\ flushed = Len(files.stdout)

----------------------------------------------------------------------------
\* The lines a reader of the output channel gets, decoded
RECURSIVE ReadResponses(_, _)
ReadResponses(stream, from) ==
  IF from > Len(stream) THEN <<>>
  ELSE LET got == readline(stream, from)
       IN <<json_loads_response(got)>> \o ReadResponses(stream, from + Len(got))

\* C18: every encoded response holds no raw line feed, so the output
\* channel read line by line gives one line per response, and decoding the
\* i-th line gives the i-th response: the same ok and the same out or err,
\* stdout and stderr texts, whatever the snippet printed (braces, quotes,
\* backslashes, tabs and line feeds included).
C18_FramingRoundTrip ==
  LET got == ReadResponses(files.stdout, 1)
  IN /\ \A i \in 1..Len(responses) : ~Contains(json_dumps(responses[i]), LF)
     /\ Len(got) = Len(responses)
     /\ \A i \in 1..Len(responses) :
          /\ got[i].valid
          /\ got[i].val = responses[i]

C18_Witness ==
  /\ Answered /\ IsRequest /\ ~IsStmt(req) /\ Completed
  /\ Last(responses).out = <<"{", "\"", "fake", "\"", ": 1}", LF, "a", LF, "b", "\\", "n", "\t", LF>>
  /\ Len(responses) = 2
  /\ ~responses[1].ok
  /\ Contains(responses[1].stderr, "\"")

----------------------------------------------------------------------------
\* Line number i is a JSON document that is not an object
NonObject(i) ==
  /\ strip(InputLine(i)) # <<>>
  /\ json_loads(strip(InputLine(i))).ok
  /\ json_loads(strip(InputLine(i))).val.t # "dict"

C19_NonObjectState ==
  /\ (read # <<>> /\ NonObject(Last(read))) =>
       /\ pc \in {"reading", "done"}
       /\ ~ran
       /\ Len(responses) = NonBlank(read)
       /\ DOMAIN Last(responses) = ErrShape
       /\ ~Last(responses).ok
       /\ Last(responses).err = <<"'", req.t, "' object has no attribute 'get'">>
       /\ Last(responses).stdout = <<>>
       /\ IsTrace(Last(responses).stderr)
       /\ Contains(Last(responses).stderr, "AttributeError")
  /\ (Len(read) >= 2 /\ NonObject(read[Len(read) - 1]) /\ Answered /\ IsRequest
        /\ IsStmt(req) /\ CurCode.v = <<"(x := 5)">>) =>
       Last(responses) = Ok(<<"5">>, <<>>, <<>>)

C19_NonObjectStep ==
  (read' # read /\ NonObject(Last(read'))) =>
    /\ Len(responses') = Len(responses) + 1
    /\ Count(files'.stdout, LF) = Count(files.stdout, LF) + 1
    /\ pc' = "reading"
    /\ UNCHANGED <<builtins, PRELUDE, files.stderr, exit_code>>

\* C19: a line that is a JSON document but not an object (a list, a
\* number, null) runs no snippet and adds exactly one response:
\* ok false, err the AttributeError of the failed field lookup, stdout
\* empty, stderr a trace; the loop goes on reading, and a well-formed
\* request that follows is answered as usual.
C19_NonObjectAnswered == [] C19_NonObjectState /\ [][C19_NonObjectStep]_vars

C19_Witness ==
  /\ Len(read) = 2
  /\ NonObject(read[1])
  /\ req.t = "dict"
  /\ Answered /\ IsRequest
  /\ ~responses[1].ok
  /\ Contains(responses[1].stderr, "AttributeError")
  /\ responses[2].ok

----------------------------------------------------------------------------
\* The outcome of a whole snippet run on its own: in globals gs, with empty
\* locals to begin with and the builtins module bs, w being what it wrote
RECURSIVE RunAlone(_, _, _, _, _, _)
RunAlone(os, ls, gs, bs, w, val) ==
  IF os = <<>> THEN [raised |-> FALSE, val |-> val, wrote |-> w]
  ELSE LET o == Head(os)
           res == Exec(o, ls, gs, bs)
           text == IF o.op = "print" THEN o.text \o <<LF>>
                   ELSE IF o.op = "print_name" /\ ~res.raised
                   THEN str(Resolve(o.id, ls, gs, bs)) \o <<LF>>
                   ELSE <<>>
           w2 == IF text = <<>> THEN w ELSE [w EXCEPT ![o.file] = @ \o text]
       IN IF res.raised THEN [raised |-> TRUE, exc |-> res.exc, wrote |-> w2]
          ELSE RunAlone(Tail(os), res.locs, store_global(o, gs, <<>>).globs, res.builtins,
                        w2, res.val)

NoResponse == [ok |-> FALSE, none |-> TRUE]

\* The response line number i gets from a worker that loaded the same
\* prelude and has processed no line before it (NoResponse: it gets none)
ResponseAlone(i) ==
  LET dec == json_loads_input(i)
      r == dec.val
      chk == validate(r)
      prog == compile(dict_get(r, "code").v, IF IsStmt(r) THEN "eval" ELSE "exec")
      run == RunAlone(prog.ops, <<>>, Namespace(PRELUDE), BuiltinsModule, NoWrites, PyNone)
      fs == IF IsStmt(r)
            THEN [NoFiles EXCEPT !.stdout_buf = run.wrote.stdout, !.stderr_buf = run.wrote.stderr]
            ELSE [NoFiles EXCEPT !.buf_out = run.wrote.stdout, !.buf_err = run.wrote.stderr]
  IN IF dec.blank THEN NoResponse
     ELSE IF ~dec.ok THEN invalid_json(dec.exc)
     ELSE IF ~chk.ok THEN failure(NoFiles, chk.exc, chk.frames)
     ELSE IF ~prog.ok THEN failure(NoFiles, prog.exc, CallFrames(r))
     ELSE IF ~run.raised THEN success(r, fs, run.val)
     ELSE IF Caught(run.exc) THEN failure(fs, run.exc, CallFrames(r) \o SnippetFrame)
     ELSE NoResponse

\* C20: the response to a line is the response the same line gets from a
\* worker with the same prelude that has processed nothing before it,
\* whatever lines came before (requests that succeeded or failed, lines
\* that were rejected); a line that gets no response alone gets none.
C20_HistoryIndependent ==
  /\ Answered => Last(responses) = ResponseAlone(Last(read))
  /\ (pc = "crashed" /\ ran) => ResponseAlone(Last(read)) = NoResponse

====
